---- MODULE Spec2Model ----
(***************************************************************************)
(* A model of the overturemaps extraction scripts: boundary lookup         *)
(* (utils.get_boundaries), the bounding-box prefilter, geometry            *)
(* normalisation and batch conversion (extract.py), the field handling of  *)
(* extract.create_file, the per-boundary driver loop (extract.main) and    *)
(* the file-name parser of the HDX sync (hdx_sync.parse_object).           *)
(*                                                                         *)
(* Each component has its own variables and its own specification; a       *)
(* specification keeps the variables of the other components at their idle *)
(* values.  Strings whose characters matter (file names, joined lists) are *)
(* sequences of one-character strings.                                     *)
(***************************************************************************)
EXTENDS Integers, Sequences, FiniteSets, TLC

VARIABLES
    \* utils.get_boundaries
    store_open,     \* whether ./boundaries.fgb can be opened
    store,          \* objectid -> feature of the boundaries layer (or absent)
    maybe_ids,      \* the requested keys of the last call
    with_geom,      \* the with_geom argument of the last call
    gb,             \* outcome of the last call
    \* extract.get_data_from_bbox: the bounding-box predicate
    extent,         \* boundary.extent: <<xmin, xmax, ymin, ymax>>
    row_bbox,       \* the bbox struct column of one source row
    bb_result,      \* what the predicate said of the row
    \* extract.check_geometry
    geom_in,        \* the geometry of a source row
    g_pc,           \* "new", "once", "twice" or "rejected"
    geom_once,      \* check_geometry(geom_in)
    geom_twice,     \* check_geometry applied to that result
    \* extract.get_data_from_bbox: the batch loop
    c_theme,        \* the Theme the run extracts
    c_pc,           \* "start", "read", "convert", "write", "done" or "error"
    c_nread,        \* batches the dataset scanner has produced so far
    c_batch,        \* the batch read_next_batch returned
    c_features,     \* the features list built from the batch
    c_fi,           \* index of the next feature the for loop writes
    c_layer,        \* features of the output layer, in write order
    c_ds,           \* output datasource: "none", "open" or "closed"
    c_counter,      \* the progress counter
    c_admitted,     \* history: rows of the batches read so far
    c_skipped,      \* history: batches the predicate left without a row
    c_eos,          \* history: the reader has raised StopIteration
    \* extract.main and hdx_sync.parse_object
    m_type,         \* the --type argument
    m_theme,        \* the Theme get_theme returned
    m_boundaries,   \* the list get_boundaries returned
    m_i,            \* index of the boundary the for loop is at
    m_pc,           \* "start", "next", "bbox", "filter", "move", "done", "failed"
    m_file,         \* file_name of the current boundary
    m_tmp,          \* files in the boundary's temporary directory
    m_cwd,          \* names of the files in the working directory
    m_log,          \* history: the steps taken, <<boundary index, step>>
    m_parsed,       \* what parse_object made of a published name
    \* extract.create_file: the field plan and the copy of one feature
    f_defn,         \* input layer definition: <<[name, type], ...>>
    f_feature,      \* field values of one input feature, by field index
    f_pc,           \* "new", "fields", "copied" or "error"
    f_out_defn,     \* output layer definition
    f_out,          \* field values of the output feature
    \* extract.create_file: the copy loop
    l_total,        \* number of features of the input layer (FIDs 1..l_total)
    l_stride,       \* spatial filter: FIDs 1, 1 + l_stride, ... pass
    l_nullfid,      \* FID of the feature whose list value is null (0: none)
    l_pc,           \* "start", "loop", "done" or "error"
    l_pos,          \* FID of the feature the iteration yielded last
    l_counter,      \* counter
    l_written,      \* FIDs of the features written to the output layer
    l_in_ds,        \* input datasource: "none", "open" or "closed"
    l_out_ds        \* output datasource: "none", "open" or "closed"

bvars == <<store_open, store, maybe_ids, with_geom, gb>>
xvars == <<extent, row_bbox, bb_result>>
gvars == <<geom_in, g_pc, geom_once, geom_twice>>
cvars == <<c_theme, c_pc, c_nread, c_batch, c_features, c_fi, c_layer, c_ds,
           c_counter, c_admitted, c_skipped, c_eos>>
mvars == <<m_type, m_theme, m_boundaries, m_i, m_pc, m_file, m_tmp, m_cwd,
           m_log, m_parsed>>
fvars == <<f_defn, f_feature, f_pc, f_out_defn, f_out>>
lvars == <<l_total, l_stride, l_nullfid, l_pc, l_pos, l_counter, l_written,
           l_in_ds, l_out_ds>>

vars == <<bvars, xvars, gvars, cvars, mvars, fvars, lvars>>

----------------------------------------------------------------------------
(* Generic sequence helpers *)

RECURSIVE SeqToSet(_)
SeqToSet(s) == IF s = <<>> THEN {} ELSE {Head(s)} \cup SeqToSet(Tail(s))

\* all sequences over S of length 0..n
SeqsUpTo(S, n) == UNION {[1..k -> S] : k \in 0..n}

----------------------------------------------------------------------------
(* utils.py: the boundary store and get_boundaries *)

MaxId == 2          \* object ids of the store are 1..MaxId
MaxKeys == 2        \* longest list of requested keys

ObjectIds == 1..MaxId
RequestKeys == 1..(MaxId + 1)     \* one key is never in the store

Iso3Codes == {"AAA", "BBB"}
AdmNames == {"Alpha", "Beta"}
RbCodes == {"-", "RBB"}           \* "-" is the sentinel the code skips
DisputedFlags == {"yes", "no"}

\* the order Python's string comparison gives the display names
NameRank(n) == IF n = "Alpha" THEN 1 ELSE 2

\* geometry of record i as a set of unit cells; neighbouring records overlap
GeomOf(i) == {i, i + 1}

Absent == [present |-> FALSE]

StoreFeatures(i) ==
    {[present |-> TRUE, objectid |-> i, iso3 |-> c, adm0_name |-> n,
      rb |-> r, disputed |-> d, geom |-> GeomOf(i)] :
        c \in Iso3Codes, n \in AdmNames, r \in RbCodes, d \in DisputedFlags}

Stores == {s \in [ObjectIds -> UNION {StoreFeatures(i) : i \in ObjectIds} \cup {Absent}] :
              \A i \in ObjectIds : s[i].present => s[i].objectid = i}

NoStore == [i \in ObjectIds |-> Absent]

\* boundaries_lyr after SetAttributeFilter: "objectid IN (...)" when keys are
\* given, every feature otherwise; features come in layer (objectid) order
RECURSIVE LayerFrom(_, _, _)
LayerFrom(st, ids, i) ==
    IF i > MaxId THEN <<>>
    ELSE LET rest == LayerFrom(st, ids, i + 1)
             sel == st[i].present /\ (Len(ids) = 0 \/ i \in SeqToSet(ids))
         IN IF sel THEN <<st[i]>> \o rest ELSE rest

FilteredLayer(st, ids) == LayerFrom(st, ids, 1)

ExportWkb(feature, wg) == IF wg THEN <<feature.geom>> ELSE <<>>

ToBoundary(feature, wg) ==
    [id |-> feature.objectid, iso3 |-> feature.iso3,
     name |-> feature.adm0_name, wkb |-> ExportWkb(feature, wg)]

\* faulty variant: the rb "-" exclusion dropped
SkipFeatureNever(feature) == FALSE

SkipFeature(feature) == feature.rb = "-"

\* the loop over the layer: skip rb "-" features, append a Boundary for the rest
RECURSIVE CollectBoundaries(_, _)
CollectBoundaries(layer, wg) ==
    IF layer = <<>> THEN <<>>
    ELSE IF SkipFeature(Head(layer))
         THEN CollectBoundaries(Tail(layer), wg)
         ELSE <<ToBoundary(Head(layer), wg)>> \o CollectBoundaries(Tail(layer), wg)

\* sorted(boundaries, key=name): a stable sort
RECURSIVE InsertByName(_, _)
InsertByName(b, sorted) ==
    IF sorted = <<>> THEN <<b>>
    ELSE IF NameRank(Head(sorted).name) <= NameRank(b.name)
         THEN <<Head(sorted)>> \o InsertByName(b, Tail(sorted))
         ELSE <<b>> \o sorted

RECURSIVE SortByName(_)
SortByName(bs) ==
    IF bs = <<>> THEN <<>>
    ELSE InsertByName(bs[Len(bs)], SortByName(SubSeq(bs, 1, Len(bs) - 1)))

BoundaryIds(bs) == {bs[k].id : k \in 1..Len(bs)}

\* faulty variant: every requested key reported, found or not
MissingIdsAll(ids, bs) == ids

MissingIds(ids, bs) == SelectSeq(ids, LAMBDA i : i \notin BoundaryIds(bs))

CountMismatch(bs, ids) == Len(bs) # Len(ids)

get_boundaries(open, st, ids, wg) ==
    IF ~open
    THEN [status |-> "file_missing", boundaries |-> <<>>, missing |-> <<>>]
    ELSE LET bs == SortByName(CollectBoundaries(FilteredLayer(st, ids), wg))
         IN IF Len(ids) = 0
            THEN [status |-> "ok", boundaries |-> bs, missing |-> <<>>]
            ELSE IF CountMismatch(bs, ids)
                 THEN [status |-> "not_found", boundaries |-> <<>>,
                       missing |-> MissingIds(ids, bs)]
                 ELSE [status |-> "ok", boundaries |-> bs, missing |-> <<>>]

GbIdle == [status |-> "idle", boundaries |-> <<>>, missing |-> <<>>]

BIdle ==
    /\ store_open = FALSE
    /\ store = NoStore
    /\ maybe_ids = <<>>
    /\ with_geom = FALSE
    /\ gb = GbIdle

BInit ==
    /\ \/ store_open = TRUE /\ store \in Stores
       \/ store_open = FALSE /\ store = NoStore
    /\ maybe_ids = <<>>
    /\ with_geom = FALSE
    /\ gb = GbIdle

\* the one call of get_boundaries(ids, wg) a run makes against the store
GetBoundaries ==
    \E ids \in SeqsUpTo(RequestKeys, MaxKeys), wg \in BOOLEAN :
        /\ gb.status = "idle"
        /\ maybe_ids' = ids
        /\ with_geom' = wg
        /\ gb' = get_boundaries(store_open, store, ids, wg)
        /\ UNCHANGED <<store_open, store>>

----------------------------------------------------------------------------
(* Claims about get_boundaries *)

RequestedKeys == SeqToSet(maybe_ids)
InStore(k) == k \in ObjectIds /\ store[k].present
\* a record the loop keeps: present and not in the sentinel region bucket
Selectable(k) == InStore(k) /\ store[k].rb # "-"
HasRepeat(ids) == \E i, j \in 1..Len(ids) : i < j /\ ids[i] = ids[j]
Returned == gb.status = "ok"
Raised == gb.status = "not_found"
Called == gb.status \in {"ok", "not_found"}
ReturnedIds == BoundaryIds(gb.boundaries)
ReportedMissing == SeqToSet(gb.missing)

\* the records the call selected: matched by the filter (every record when no
\* key is given) and kept by the loop
SelectedIds ==
    {i \in ObjectIds : Selectable(i) /\ (maybe_ids = <<>> \/ i \in RequestedKeys)}
Group(c) == {i \in SelectedIds : store[i].iso3 = c}
NonDisputed(c) == {i \in Group(c) : store[i].disputed = "no"}
UnionGeom(S) == UNION {store[i].geom : i \in S}

\* C1 as stated: for a non-empty key list, get_boundaries raises not-found iff
\* some requested key matches no record of the store, and a normal return
\* carries exactly the requested ids.
C1_Original ==
    (Called /\ Len(maybe_ids) > 0) =>
        /\ Raised <=> (\E k \in RequestedKeys : ~InStore(k))
        /\ Returned => ReturnedIds = RequestedKeys

\* C1 amended: for a non-empty key list, get_boundaries raises not-found iff
\* some requested key has no record that survives the rb "-" exclusion or the
\* list repeats a key; a normal return carries exactly the requested ids.
C1_RaisesIffUnselectableOrRepeated ==
    (Called /\ Len(maybe_ids) > 0) =>
        /\ Raised <=> \/ \E k \in RequestedKeys : ~Selectable(k)
                      \/ HasRepeat(maybe_ids)
        /\ Returned => ReturnedIds = RequestedKeys

\* C1 witness: a call raised although every requested key has a record in the
\* store and no key is repeated (a requested record is in region bucket "-")
C1_Witness ==
    /\ Raised
    /\ Len(maybe_ids) > 0
    /\ \A k \in RequestedKeys : InStore(k)
    /\ ~HasRepeat(maybe_ids)

\* C2 as stated: when not-found is raised, the reported list is non-empty and
\* is exactly the requested keys absent from the store.
C2_Original ==
    Raised =>
        /\ gb.missing # <<>>
        /\ ReportedMissing = {k \in RequestedKeys : ~InStore(k)}

\* C2 amended: when not-found is raised, the reported keys are exactly the
\* requested keys with no record surviving the rb "-" exclusion (so every
\* requested key absent from the store is reported, and no key whose record
\* is kept); the list is empty only when the request repeats a key.
C2_MissingAreUnselectable ==
    Raised =>
        /\ ReportedMissing = {k \in RequestedKeys : ~Selectable(k)}
        /\ {k \in RequestedKeys : ~InStore(k)} \subseteq ReportedMissing
        /\ gb.missing = <<>> => HasRepeat(maybe_ids)

\* C2 witness: not-found raised with one key absent from the store and one
\* requested key found
C2_Witness ==
    /\ Raised
    /\ \E k \in RequestedKeys : ~InStore(k)
    /\ \E k \in RequestedKeys : Selectable(k)
    /\ gb.missing # <<>>

\* C3: when the selected records hold N > 1 records of one ISO3 code, exactly
\* one of them non-disputed, the call returns exactly one Boundary for that
\* code, with the union of the N geometries and the non-disputed record's name.
C3_MergedGroup ==
    (Returned /\ with_geom) =>
        \A c \in Iso3Codes :
            (Cardinality(Group(c)) > 1 /\ Cardinality(NonDisputed(c)) = 1) =>
                LET hits == {k \in 1..Len(gb.boundaries) : gb.boundaries[k].iso3 = c}
                IN /\ Cardinality(hits) = 1
                   /\ \A k \in hits :
                        /\ gb.boundaries[k].wkb = <<UnionGeom(Group(c))>>
                        /\ \A i \in NonDisputed(c) :
                              gb.boundaries[k].name = store[i].adm0_name

\* C4: when the selected records hold a group of more than one record of one
\* ISO3 code in which every record is disputed, the call does not return a
\* Boundary list (it fails with NoAuthoritativeBoundary).
C4_DisputedOnlyGroupFails ==
    (\E c \in Iso3Codes : Cardinality(Group(c)) > 1 /\ NonDisputed(c) = {})
        => ~Returned

----------------------------------------------------------------------------
(* extract.py / qgis_function.py: the bounding-box predicate *)

MaxCoord == 2       \* coordinates are 0..MaxCoord

Coords == 0..MaxCoord

\* the envelope of a boundary polygon: a rectangle with an interior
Extents ==
    {<<x1, x2, y1, y2>> : x1 \in Coords, x2 \in Coords, y1 \in Coords, y2 \in Coords}
        \cap {e \in Coords \X Coords \X Coords \X Coords : e[1] < e[2] /\ e[3] < e[4]}

\* the bbox of a source row: may have zero width or height (a point, an
\* axis-parallel segment)
RowBoxes ==
    {b \in [xmin : Coords, xmax : Coords, ymin : Coords, ymax : Coords] :
        b.xmin <= b.xmax /\ b.ymin <= b.ymax}

\* filter = (bbox.xmin < xmax) & (bbox.xmax > xmin) & (bbox.ymin < ymax) & (bbox.ymax > ymin)
BBoxFilter(bbox, ext) ==
    LET xmin == ext[1]
        xmax == ext[2]
        ymin == ext[3]
        ymax == ext[4]
    IN /\ bbox.xmin < xmax
       /\ bbox.xmax > xmin
       /\ bbox.ymin < ymax
       /\ bbox.ymax > ymin

NoBox == [xmin |-> 0, xmax |-> 0, ymin |-> 0, ymax |-> 0]

XIdle ==
    /\ extent = <<0, 0, 0, 0>>
    /\ row_bbox = NoBox
    /\ bb_result = "none"

XInit ==
    /\ extent \in Extents
    /\ row_bbox \in RowBoxes
    /\ bb_result = "none"

\* the reader evaluates the pushed-down predicate on the row
ApplyBBoxFilter ==
    /\ bb_result = "none"
    /\ bb_result' = IF BBoxFilter(row_bbox, extent) THEN "admit" ELSE "reject"
    /\ UNCHANGED <<extent, row_bbox>>

(* Claims about the bounding-box predicate *)

\* the row's box and the extent, as closed rectangles, have a common point
SharesPoint(bbox, ext) ==
    /\ bbox.xmin <= ext[2]
    /\ bbox.xmax >= ext[1]
    /\ bbox.ymin <= ext[4]
    /\ bbox.ymax >= ext[3]

\* C5: every row whose bounding box shares at least one point with the
\* boundary extent (edge contact and zero-width or zero-height boxes
\* included) satisfies the predicate.
C5_SupersetFilter ==
    (bb_result # "none" /\ SharesPoint(row_bbox, extent)) => bb_result = "admit"

----------------------------------------------------------------------------
(* extract.py: check_geometry *)

MaxShape == 3       \* distinct coordinate bodies 1..MaxShape
MaxParts == 3       \* most parts of a MultiPolygon

Shapes == 1..MaxShape

\* ogr geometry types as GetGeometryType reports them; a geometry with a Z
\* coordinate reports the 25D code of its type
SimpleTypes ==
    {"Point", "LineString", "Polygon", "MultiPoint", "MultiLineString",
     "GeometryCollection", "Polygon25D", "MultiPolygon25D"}

\* a MultiPolygon is the sequence of its polygon parts; every other geometry
\* is its type and its coordinates
Geometries ==
    {[type |-> t, body |-> <<sh>>] : t \in SimpleTypes, sh \in Shapes}
        \cup {[type |-> "MultiPolygon", body |-> ps] : ps \in SeqsUpTo(Shapes, MaxParts)}

NoGeom == [type |-> "None", body |-> <<>>]
GeomOk(g) == [status |-> "ok", geom |-> g]
GeomError(g) == [status |-> "error", geom |-> NoGeom]
NoResult == [status |-> "none", geom |-> NoGeom]

\* faulty variant: only MultiPolygon passes through, a LineString is rejected
PassThroughTypesPolygonal == {"MultiPolygon"}

\* geom_type in (ogr.wkbMultiPolygon, ogr.wkbLineString)
PassThroughTypes == {"MultiPolygon", "LineString"}

\* multipolygon = ogr.Geometry(wkbMultiPolygon); multipolygon.AddGeometry(geom)
WrapPolygon(g) == [type |-> "MultiPolygon", body |-> g.body]

check_geometry(g) ==
    IF g.type \in PassThroughTypes THEN GeomOk(g)
    ELSE IF g.type # "Polygon" THEN GeomError(g)
    ELSE GeomOk(WrapPolygon(g))

GIdle ==
    /\ geom_in = NoGeom
    /\ g_pc = "idle"
    /\ geom_once = NoResult
    /\ geom_twice = NoResult

GInit ==
    /\ geom_in \in Geometries
    /\ g_pc = "new"
    /\ geom_once = NoResult
    /\ geom_twice = NoResult

\* check_geometry on the row's geometry
CheckGeometryOnce ==
    /\ g_pc = "new"
    /\ geom_once' = check_geometry(geom_in)
    /\ g_pc' = IF geom_once'.status = "ok" THEN "once" ELSE "rejected"
    /\ UNCHANGED <<geom_in, geom_twice>>

\* check_geometry on what it returned
CheckGeometryTwice ==
    /\ g_pc = "once"
    /\ geom_twice' = check_geometry(geom_once.geom)
    /\ g_pc' = "twice"
    /\ UNCHANGED <<geom_in, geom_once>>

(* Claims about check_geometry *)

\* C7 as stated: check_geometry returns a MultiPolygon (a Polygon wrapped as
\* its single part, a MultiPolygon unchanged; twice is the same as once) or
\* raises; every geometry that is neither Polygon nor MultiPolygon is rejected.
C7_Original ==
    /\ g_pc \in {"once", "twice"} =>
          /\ geom_once.geom.type = "MultiPolygon"
          /\ geom_in.type \in {"Polygon", "MultiPolygon"}
    /\ g_pc = "twice" => geom_twice = geom_once

\* C7 amended: check_geometry returns a MultiPolygon (a Polygon wrapped as its
\* single part, a MultiPolygon unchanged) or a LineString unchanged, or raises
\* for every other type; applying it twice gives the same result as once.
C7_MultiPolygonOrLineString ==
    /\ g_pc \in {"once", "twice"} =>
          /\ geom_once.status = "ok"
          /\ geom_once.geom.type \in {"MultiPolygon", "LineString"}
          /\ geom_in.type \in {"Polygon", "MultiPolygon", "LineString"}
          /\ geom_in.type = "Polygon" =>
                geom_once.geom = [type |-> "MultiPolygon", body |-> geom_in.body]
          /\ geom_in.type \in {"MultiPolygon", "LineString"} =>
                geom_once.geom = geom_in
    /\ g_pc = "rejected" =>
          /\ geom_once.status = "error"
          /\ geom_in.type \notin {"Polygon", "MultiPolygon", "LineString"}
    /\ g_pc = "twice" => geom_twice = geom_once

\* C7 witness: a Polygon was wrapped and the result normalised again
C7_Witness ==
    /\ g_pc = "twice"
    /\ geom_in.type = "Polygon"
    /\ geom_twice.geom.type = "MultiPolygon"

----------------------------------------------------------------------------
(* extract.py: themes, row_to_feature and the batch loop of get_data_from_bbox *)

MaxBatches == 2     \* batches the dataset scanner produces at most
MaxRows == 2        \* rows of a source batch at most

BUILDING_SCHEMA == <<"id", "subtype", "class", "level", "height">>
SEGMENT_SCHEMA == <<"id", "subtype", "class", "subclass">>

THEME_MAPPINGS ==
    {[om_theme |-> "buildings", om_type |-> "building",
      schema |-> BUILDING_SCHEMA, geom_type |-> "MultiPolygon"],
     [om_theme |-> "transportation", om_type |-> "segment",
      schema |-> SEGMENT_SCHEMA, geom_type |-> "LineString"]}

NoTheme == [om_theme |-> "", om_type |-> "", schema |-> <<>>, geom_type |-> ""]

\* the extent of the boundary of the run, and row boxes in and out of it
ConvExtent == <<0, 2, 0, 2>>
InsideBox == [xmin |-> 0, xmax |-> 1, ymin |-> 0, ymax |-> 1]
OutsideBox == [xmin |-> 3, xmax |-> 4, ymin |-> 0, ymax |-> 1]

BuildingRow(id, cls, g, box) ==
    [id |-> id, subtype |-> "residential", class |-> cls, level |-> 1,
     height |-> 3, version |-> 0, geometry |-> g, bbox |-> box]

SegmentRow(id, cls, g, box) ==
    [id |-> id, subtype |-> "road", class |-> cls, subclass |-> "link",
     version |-> 0, geometry |-> g, bbox |-> box]

\* rows the dataset of a theme can hold: the theme's geometry types in and
\* out of the extent, and a malformed row with a geometry of another type
DatasetRows(theme) ==
    IF theme.om_type = "building"
    THEN {BuildingRow("b1", "house", [type |-> "Polygon", body |-> <<1>>], InsideBox),
          BuildingRow("b2", "shed", [type |-> "MultiPolygon", body |-> <<1, 2>>], InsideBox),
          BuildingRow("b3", "house", [type |-> "Polygon", body |-> <<2>>], OutsideBox),
          BuildingRow("b4", "shed", [type |-> "Point", body |-> <<1>>], InsideBox)}
    ELSE {SegmentRow("s1", "primary", [type |-> "LineString", body |-> <<1>>], InsideBox),
          SegmentRow("s2", "track", [type |-> "LineString", body |-> <<2>>], InsideBox),
          SegmentRow("s3", "primary", [type |-> "LineString", body |-> <<3>>], OutsideBox),
          SegmentRow("s4", "track", [type |-> "Point", body |-> <<1>>], InsideBox)}

\* dataset.to_batches(filter=filter): the rows of a source batch the
\* predicate admits, in order
FilterBatch(rows, ext) == SelectSeq(rows, LAMBDA r : BBoxFilter(r.bbox, ext))

FieldNames(schema) == SeqToSet(schema)

NoFeature == [none |-> TRUE]

FeatureOk(f) == [status |-> "ok", feature |-> f]
FeatureError == [status |-> "error", feature |-> NoFeature]

\* faulty variant: a row whose geometry is rejected yields None, which the write loop
\* skips, instead of raising
row_to_feature_skipping(row, schema) ==
    LET g == check_geometry(row.geometry)
    IN IF g.status = "error" THEN FeatureOk(NoFeature)
       ELSE FeatureOk([none |-> FALSE,
                       fields |-> [n \in FieldNames(schema) |-> row[n]],
                       geometry |-> g.geom])

\* geometry checked first (may raise), then one SetField per field of the
\* layer definition (a row without the column raises), then SetGeometry
row_to_feature(row, schema) ==
    LET g == check_geometry(row.geometry)
    IN IF g.status = "error" THEN FeatureError
       ELSE IF \E n \in FieldNames(schema) : n \notin DOMAIN row THEN FeatureError
       ELSE FeatureOk([none |-> FALSE,
                       fields |-> [n \in FieldNames(schema) |-> row[n]],
                       geometry |-> g.geom])

\* features = [row_to_feature(row, ...) for row in batch.to_pylist()]
BatchFeatures(batch, schema) ==
    [k \in 1..Len(batch) |-> row_to_feature(batch[k], schema)]

CIdle ==
    /\ c_theme = NoTheme
    /\ c_pc = "idle"
    /\ c_nread = 0
    /\ c_batch = <<>>
    /\ c_features = <<>>
    /\ c_fi = 0
    /\ c_layer = <<>>
    /\ c_ds = "none"
    /\ c_counter = 0
    /\ c_admitted = <<>>
    /\ c_skipped = 0
    /\ c_eos = FALSE

CInit ==
    /\ c_theme \in THEME_MAPPINGS
    /\ c_pc = "start"
    /\ c_nread = 0
    /\ c_batch = <<>>
    /\ c_features = <<>>
    /\ c_fi = 0
    /\ c_layer = <<>>
    /\ c_ds = "none"
    /\ c_counter = 0
    /\ c_admitted = <<>>
    /\ c_skipped = 0
    /\ c_eos = FALSE

\* lines 126-170: open the dataset (a remote failure raises before any
\* output exists), create the output datasource and layer, counter = 1
OpenOutput ==
    /\ c_pc = "start"
    /\ \E ok \in BOOLEAN :
          IF ok
          THEN /\ c_ds' = "open"
               /\ c_counter' = 1
               /\ c_pc' = "read"
          ELSE /\ c_pc' = "error"
               /\ UNCHANGED <<c_ds, c_counter>>
    /\ UNCHANGED <<c_theme, c_nread, c_batch, c_features, c_fi, c_layer, c_admitted,
                   c_skipped, c_eos>>

\* reader.read_next_batch(): the scanner produces the next source batch; the
\* non_empty_batches generator passes it on when the predicate left it a row
\* and asks for the next one otherwise
ReadNextBatch ==
    /\ c_pc = "read"
    /\ c_nread < MaxBatches
    /\ \E src \in SeqsUpTo(DatasetRows(c_theme), MaxRows) :
          LET batch == FilterBatch(src, ConvExtent)
          IN /\ c_nread' = c_nread + 1
             /\ IF Len(batch) > 0
                THEN /\ c_batch' = batch
                     /\ c_admitted' = c_admitted \o batch
                     /\ c_pc' = "convert"
                     /\ UNCHANGED c_skipped
                ELSE /\ c_skipped' = c_skipped + 1
                     /\ UNCHANGED <<c_batch, c_admitted, c_pc>>
    /\ UNCHANGED <<c_theme, c_features, c_fi, c_layer, c_ds, c_counter, c_eos>>

\* read_next_batch raises StopIteration: break, then output_ds = None
EndOfBatches ==
    /\ c_pc = "read"
    /\ c_ds' = "closed"
    /\ c_pc' = "done"
    /\ c_eos' = TRUE
    /\ UNCHANGED <<c_theme, c_nread, c_batch, c_features, c_fi, c_layer,
                   c_counter, c_admitted, c_skipped>>

\* read_next_batch raises another error (a failed remote read): it propagates
ReadFails ==
    /\ c_pc = "read"
    /\ c_nread < MaxBatches
    /\ c_pc' = "error"
    /\ UNCHANGED <<c_theme, c_nread, c_batch, c_features, c_fi, c_layer, c_ds,
                   c_counter, c_admitted, c_skipped, c_eos>>

\* lines 177-183: an empty batch goes back to the read; otherwise the list
\* comprehension builds every feature of the batch, or raises on the first
\* row that row_to_feature rejects
ConvertBatch ==
    /\ c_pc = "convert"
    /\ IF Len(c_batch) = 0
       THEN /\ c_pc' = "read"
            /\ UNCHANGED <<c_features, c_fi>>
       ELSE LET fs == BatchFeatures(c_batch, c_theme.schema)
            IN IF \E k \in 1..Len(fs) : fs[k].status = "error"
               THEN /\ c_pc' = "error"
                    /\ UNCHANGED <<c_features, c_fi>>
               ELSE /\ c_features' = [k \in 1..Len(fs) |-> fs[k].feature]
                    /\ c_fi' = 1
                    /\ c_pc' = "write"
    /\ UNCHANGED <<c_theme, c_nread, c_batch, c_layer, c_ds, c_counter, c_admitted,
                   c_skipped, c_eos>>

\* one turn of "for feature in features": None is skipped, any other feature
\* goes to output_layer.CreateFeature
WriteFeature ==
    /\ c_pc = "write"
    /\ c_fi <= Len(c_features)
    /\ c_layer' = IF c_features[c_fi].none THEN c_layer
                  ELSE Append(c_layer, c_features[c_fi])
    /\ c_fi' = c_fi + 1
    /\ UNCHANGED <<c_theme, c_pc, c_nread, c_batch, c_features, c_ds,
                   c_counter, c_admitted, c_skipped, c_eos>>

\* faulty variant: the for loop is left after its first turn
BatchWrittenEarly == c_fi > 1

\* "for feature in features" has run through the whole list
BatchWritten == c_fi > Len(c_features)

\* the for loop is over: counter += len(features), back to the read
BatchDone ==
    /\ c_pc = "write"
    /\ BatchWritten
    /\ c_counter' = c_counter + Len(c_features)
    /\ c_pc' = "read"
    /\ UNCHANGED <<c_theme, c_nread, c_batch, c_features, c_fi, c_layer, c_ds,
                   c_admitted, c_skipped, c_eos>>

(* Claims about the batch loop *)

NormalisableTypes == {"Polygon", "MultiPolygon", "LineString"}
BadRows == {k \in 1..Len(c_admitted) : c_admitted[k].geometry.type \notin NormalisableTypes}

C6_AbortReached == c_pc = "error" /\ BadRows # {}

\* rows read from the reader and not yet written to the output layer
Unwritten == SubSeq(c_admitted, Len(c_layer) + 1, Len(c_admitted))

C11_State ==
    /\ c_pc = "read" => Unwritten = <<>>
    /\ c_pc = "convert" => Unwritten = c_batch
    /\ c_pc = "write" => Unwritten = SubSeq(c_batch, c_fi, Len(c_batch))
    /\ c_pc = "done" <=> c_eos
    /\ c_ds = "closed" <=> c_eos

C11_Step ==
    /\ c_nread' # c_nread => c_pc = "read" /\ Unwritten = <<>>
    /\ c_skipped' # c_skipped =>
          /\ c_pc' = "read"
          /\ UNCHANGED <<c_layer, c_admitted, c_batch, c_counter>>
    /\ c_eos' # c_eos => c_pc = "read" /\ c_pc' = "done" /\ c_ds' = "closed"

\* C11: a batch is requested from the reader only when every row read so far
\* has been written to the output layer, so the rows not yet written always
\* belong to the one current batch; a batch the predicate left empty is
\* passed over with the layer untouched; the loop is over exactly when the
\* reader has raised StopIteration, and the output datasource is closed then
\* and only then.
C11_OneBatchAtATime == []C11_State /\ [][C11_Step]_vars

\* C11 witness: a completed run that passed over an empty batch and wrote
\* every row of a non-empty one before the reader ended the sequence
C11_Witness ==
    /\ c_eos
    /\ c_ds = "closed"
    /\ c_skipped = 1
    /\ c_nread = 2
    /\ Len(c_admitted) = 2
    /\ Len(c_layer) = 2

\* C12: whenever get_data_from_bbox has returned or raised, the output
\* datasource it opened is no longer open.
C12_ReleasedOnEveryExit == c_pc \in {"done", "error"} => c_ds # "open"

----------------------------------------------------------------------------
(* Strings as sequences of characters *)
(* str.split, str.join and str.replace as Python computes them *)

\* s.split(d): the pieces between the occurrences of d; never an empty list
RECURSIVE SplitFrom(_, _, _)
SplitFrom(s, d, cur) ==
    IF s = <<>> THEN <<cur>>
    ELSE IF Head(s) = d THEN <<cur>> \o SplitFrom(Tail(s), d, <<>>)
    ELSE SplitFrom(Tail(s), d, Append(cur, Head(s)))

Split(s, d) == SplitFrom(s, d, <<>>)

\* d.join(parts)
RECURSIVE Join(_, _)
Join(parts, d) ==
    IF parts = <<>> THEN <<>>
    ELSE IF Len(parts) = 1 THEN parts[1]
    ELSE parts[1] \o <<d>> \o Join(Tail(parts), d)

\* s.replace(c, "")
RemoveChar(s, c) == SelectSeq(s, LAMBDA x : x # c)

Digits == <<"0", "1", "2", "3", "4", "5", "6", "7", "8", "9">>
IsDigit(c) == \E k \in 1..10 : Digits[k] = c
DigitValue(c) == (CHOOSE k \in 1..10 : Digits[k] = c) - 1

\* str(n) for n >= 0
RECURSIVE IntToChars(_)
IntToChars(n) ==
    IF n < 10 THEN <<Digits[n + 1]>>
    ELSE IntToChars(n \div 10) \o <<Digits[(n % 10) + 1]>>

----------------------------------------------------------------------------
(* extract.py: main; hdx_sync.py: parse_object *)

MaxBoundaries == 3      \* boundaries a run processes at most

\* VERSION = "2024-08-20.0"
VERSION == <<"2", "0", "2", "4", "-", "0", "8", "-", "2", "0", ".", "0">>

ThemeChars(t) ==
    CASE t = "buildings" -> <<"b", "u", "i", "l", "d", "i", "n", "g", "s">>
      [] t = "building" -> <<"b", "u", "i", "l", "d", "i", "n", "g">>
      [] t = "transportation" -> <<"t", "r", "a", "n", "s", "p", "o", "r", "t", "a", "t", "i", "o", "n">>
      [] t = "segment" -> <<"s", "e", "g", "m", "e", "n", "t">>

Iso3Chars(i) == IF i % 2 = 1 THEN <<"L", "S", "O">> ELSE <<"K", "E", "N">>
FgbExt == <<".", "f", "g", "b">>

\* the Boundary get_boundaries(ids, with_geom=True) returns for object id i
MainBoundary(i) ==
    [id |-> i, iso3 |-> Iso3Chars(i), name |-> i, wkb |-> <<GeomOf(i)>>]

\* lists of distinct boundaries
BoundaryLists ==
    {bs \in SeqsUpTo({MainBoundary(i) : i \in 1..MaxBoundaries}, MaxBoundaries) :
        \A p, q \in 1..Len(bs) : p # q => bs[p] # bs[q]}

TypeArgs == {"building", "segment", "connector"}

\* next((i for i in THEME_MAPPINGS if i.om_type == type), None)
get_theme(type) ==
    IF \E t \in THEME_MAPPINGS : t.om_type = type
    THEN CHOOSE t \in THEME_MAPPINGS : t.om_type = type
    ELSE NoTheme

\* version = VERSION.replace("-", "").replace(".", "")
VersionTag == RemoveChar(RemoveChar(VERSION, "-"), ".")

\* f"{boundary.iso3}_{boundary.id}_{theme.om_theme}_{theme.om_type}_{version}.fgb"
FileName(boundary, theme) ==
    boundary.iso3 \o <<"_">> \o IntToChars(boundary.id) \o <<"_">>
        \o ThemeChars(theme.om_theme) \o <<"_">> \o ThemeChars(theme.om_type)
        \o <<"_">> \o VersionTag \o FgbExt

ParseError == [status |-> "error", object_id |-> <<>>, theme |-> <<>>,
               type |-> <<>>, release |-> <<>>, file_path |-> <<>>]
NotParsed == [status |-> "none", object_id |-> <<>>, theme |-> <<>>,
              type |-> <<>>, release |-> <<>>, file_path |-> <<>>]

\* datetime.strptime(s, "%Y%m%d").date().isoformat() for an eight-character
\* s; other lengths do not arise from VERSION and are taken as errors
ParseDate(s) ==
    IF Len(s) # 8 \/ \E k \in 1..Len(s) : ~IsDigit(s[k])
    THEN [ok |-> FALSE, iso |-> <<>>]
    ELSE LET month == 10 * DigitValue(s[5]) + DigitValue(s[6])
             day == 10 * DigitValue(s[7]) + DigitValue(s[8])
         IN IF month \notin 1..12 \/ day \notin 1..31
            THEN [ok |-> FALSE, iso |-> <<>>]
            ELSE [ok |-> TRUE,
                  iso |-> SubSeq(s, 1, 4) \o <<"-">> \o SubSeq(s, 5, 6)
                              \o <<"-">> \o SubSeq(s, 7, 8)]

\* the unpacking "object_id, theme, type, release_str = file_name.split('_')"
\* raises ValueError unless the split has exactly four pieces
parse_object(file_path) ==
    LET file_name == Split(file_path, ".")[1]
        parts == Split(file_name, "_")
    IN IF Len(parts) # 4 THEN ParseError
       ELSE LET release_str == parts[4]
            IN IF release_str = <<>> THEN ParseError
               ELSE LET date == ParseDate(SubSeq(release_str, 1, Len(release_str) - 1))
                    IN IF ~date.ok THEN ParseError
                       ELSE [status |-> "ok", object_id |-> parts[1],
                             theme |-> parts[2], type |-> parts[3],
                             release |-> date.iso \o <<".">>
                                           \o <<release_str[Len(release_str)]>>,
                             file_path |-> file_path]

\* faulty variant: an exception of a step is swallowed and the loop goes on
StepOutcomeSwallowed(ok, onward) == onward

\* a step that returns lets main go on; one that raises ends main, as main
\* has no handler
StepOutcome(ok, onward) == IF ok THEN onward ELSE "failed"

MIdle ==
    /\ m_type = ""
    /\ m_theme = NoTheme
    /\ m_boundaries = <<>>
    /\ m_i = 0
    /\ m_pc = "idle"
    /\ m_file = <<>>
    /\ m_tmp = {}
    /\ m_cwd = {}
    /\ m_log = <<>>
    /\ m_parsed = NotParsed

\* the working directory may hold files of an earlier run
MInit ==
    /\ m_type \in TypeArgs
    /\ m_theme = NoTheme
    /\ m_boundaries = <<>>
    /\ m_i = 0
    /\ m_pc = "start"
    /\ m_file = <<>>
    /\ m_tmp = {}
    /\ m_cwd \in {{}} \cup
          {{FileName(MainBoundary(1), t)} : t \in THEME_MAPPINGS}
    /\ m_log = <<>>
    /\ m_parsed = NotParsed

\* lines 332-339: get_theme raises for an unknown type; get_boundaries
\* returns the list or raises
Setup ==
    /\ m_pc = "start"
    /\ m_theme' = get_theme(m_type)
    /\ \/ /\ m_theme' # NoTheme
          /\ \E bs \in BoundaryLists : m_boundaries' = bs
          /\ m_i' = 1
          /\ m_pc' = "next"
       \/ /\ m_pc' = "failed"
          /\ UNCHANGED <<m_boundaries, m_i>>
    /\ UNCHANGED <<m_type, m_file, m_tmp, m_cwd, m_log, m_parsed>>

\* lines 341-353: the next boundary, its temporary directory and file name;
\* a boundary without geometry is passed over
StartBoundary ==
    /\ m_pc = "next"
    /\ m_i <= Len(m_boundaries)
    /\ m_file' = FileName(m_boundaries[m_i], m_theme)
    /\ m_tmp' = {}
    /\ IF m_boundaries[m_i].wkb = <<>>
       THEN m_i' = m_i + 1 /\ m_pc' = "next"
       ELSE m_i' = m_i /\ m_pc' = "bbox"
    /\ UNCHANGED <<m_type, m_theme, m_boundaries, m_cwd, m_log, m_parsed>>

\* lines 355-361: get_data_from_bbox writes the temp_ file and returns, or
\* raises; the with block then removes the temporary directory
GetDataFromBBox ==
    /\ m_pc = "bbox"
    /\ \E ok \in BOOLEAN :
          /\ m_pc' = StepOutcome(ok, "filter")
          /\ m_log' = Append(m_log, <<m_i, IF ok THEN "bbox_ok" ELSE "bbox_failed">>)
          /\ m_tmp' = IF m_pc' = "failed" THEN {} ELSE m_tmp \cup {"temp"}
    /\ UNCHANGED <<m_type, m_theme, m_boundaries, m_i, m_file, m_cwd, m_parsed>>

\* line 363: filter_by_boundary writes the output file and returns, or raises
FilterByBoundary ==
    /\ m_pc = "filter"
    /\ \E ok \in BOOLEAN :
          /\ m_pc' = StepOutcome(ok, "move")
          /\ m_log' = Append(m_log, <<m_i, IF ok THEN "filter_ok" ELSE "filter_failed">>)
          /\ m_tmp' = IF m_pc' = "failed" THEN {} ELSE m_tmp \cup {"output"}
    /\ UNCHANGED <<m_type, m_theme, m_boundaries, m_i, m_file, m_cwd, m_parsed>>

\* line 365: shutil.move(output_path, ".") raises when "." already holds a
\* file of that name; otherwise the file is published, the temporary
\* directory is removed and the loop goes to the next boundary
MoveOutput ==
    /\ m_pc = "move"
    /\ IF m_file \in m_cwd
       THEN /\ m_pc' = "failed"
            /\ m_log' = Append(m_log, <<m_i, "move_failed">>)
            /\ UNCHANGED <<m_cwd, m_i>>
       ELSE /\ m_cwd' = m_cwd \cup {m_file}
            /\ m_log' = Append(m_log, <<m_i, "move">>)
            /\ m_i' = m_i + 1
            /\ m_pc' = "next"
    /\ m_tmp' = {}
    /\ UNCHANGED <<m_type, m_theme, m_boundaries, m_file, m_parsed>>

\* the for loop is exhausted: main returns
Finish ==
    /\ m_pc = "next"
    /\ m_i > Len(m_boundaries)
    /\ m_pc' = "done"
    /\ UNCHANGED <<m_type, m_theme, m_boundaries, m_i, m_file, m_tmp, m_cwd,
                   m_log, m_parsed>>

\* hdx_sync.create_overtureitems: parse_object on the name of a file main
\* has published
HdxParse ==
    /\ m_pc \in {"done", "failed"}
    /\ m_parsed.status = "none"
    /\ \E i \in 1..Len(m_boundaries) :
          /\ <<i, "move">> \in SeqToSet(m_log)
          /\ m_parsed' = parse_object(FileName(m_boundaries[i], m_theme))
    /\ UNCHANGED <<m_type, m_theme, m_boundaries, m_i, m_pc, m_file, m_tmp,
                   m_cwd, m_log>>

(* Claims about main and parse_object *)

LogPos(i, step) == {p \in 1..Len(m_log) : m_log[p] = <<i, step>>}
FailSteps == {"bbox_failed", "filter_failed", "move_failed"}
FailPos == {p \in 1..Len(m_log) : m_log[p][2] \in FailSteps}
\* the names this run has moved into the working directory
Published == {FileName(m_boundaries[i], m_theme) : i \in {m_log[p][1] : p \in
                 {q \in 1..Len(m_log) : m_log[q][2] = "move"}}}

\* C8: a boundary's file is published only after get_data_from_bbox and then
\* filter_by_boundary have both completed without error for that boundary, in
\* that order; when a step fails nothing is published for that boundary and
\* no later boundary is processed.
C8_PublishOnlyAfterBothSteps ==
    /\ \A p \in 1..Len(m_log) :
          m_log[p][2] = "move" =>
              \E q, r \in 1..Len(m_log) :
                  /\ q < r /\ r < p
                  /\ m_log[q] = <<m_log[p][1], "bbox_ok">>
                  /\ m_log[r] = <<m_log[p][1], "filter_ok">>
    /\ \A p \in FailPos :
          /\ p = Len(m_log)
          /\ m_pc = "failed"
          /\ LogPos(m_log[p][1], "move") = {}
          /\ m_tmp = {}
    /\ \A p \in 1..Len(m_log) : m_log[p][2] = "bbox_failed" =>
          LogPos(m_log[p][1], "filter_ok") = {}

\* C8 witness: two boundaries published, then a step of the third failed
C8_Witness ==
    /\ m_pc = "failed"
    /\ Cardinality(Published) = 2
    /\ FailPos # {}
    /\ m_i = 3

\* C10: the file name main builds has exactly four underscore-separated
\* components and an extension, and parse_object applied to it succeeds and
\* recovers the key, the theme, the type and a release equal to VERSION.
C10_NameParsesBack ==
    m_file # <<>> =>
        LET item == parse_object(m_file)
        IN /\ Len(Split(Split(m_file, ".")[1], "_")) = 4
           /\ item.status = "ok"
           /\ \E i \in 1..Len(m_boundaries) :
                 /\ m_file = FileName(m_boundaries[i], m_theme)
                 /\ item.object_id \in {m_boundaries[i].iso3,
                                        IntToChars(m_boundaries[i].id)}
           /\ item.theme = ThemeChars(m_theme.om_theme)
           /\ item.type = ThemeChars(m_theme.om_type)
           /\ item.release = VERSION

----------------------------------------------------------------------------
(* extract.py: create_file, the output fields and the copy of a feature *)

MaxStrLen == 1      \* longest string element of a list value
MaxListLen == 2     \* longest list value

\* characters of a field value: an ordinary one and the delimiter
ValueChars == {"a", ","}
Strings == SeqsUpTo(ValueChars, MaxStrLen)
StringLists == SeqsUpTo(Strings, MaxListLen)

Null == [null |-> TRUE]
Val(v) == [null |-> FALSE, v |-> v]

\* input layer definitions: fields of the three kinds the copy tells apart
InputDefns ==
    {<<[name |-> "id", type |-> "String"],
       [name |-> "sources", type |-> "StringList"],
       [name |-> "level", type |-> "Integer"]>>,
     <<[name |-> "names", type |-> "StringList"],
       [name |-> "height", type |-> "Real"]>>}

\* what feature.GetField(i) can return for a field of a type
FieldValues(type) ==
    IF type = "StringList" THEN {Val(l) : l \in StringLists} \cup {Null}
    ELSE IF type = "String" THEN {Val(<<"a">>), Val(<<"a", ",">>)}
    ELSE {Val(1), Null}

\* the features of a layer: one value of its field's type per field
RECURSIVE FeaturesOf(_)
FeaturesOf(defn) ==
    IF defn = <<>> THEN {<<>>}
    ELSE {<<v>> \o rest : v \in FieldValues(Head(defn).type),
                          rest \in FeaturesOf(Tail(defn))}

\* lines 219-223: a StringList field becomes a String field of the same
\* name, every other field definition is passed on as it is
OutputField(field_defn) ==
    IF field_defn.type = "StringList"
    THEN [name |-> field_defn.name, type |-> "String"]
    ELSE field_defn

OutputDefn(defn) == [i \in 1..Len(defn) |-> OutputField(defn[i])]

\* faulty variant: the list is joined with another delimiter
JoinValuesSemicolon(list) == Join(list, ";")

\* ",".join(value)
JoinValues(list) == Join(list, ",")

\* lines 236-243 for field i: a StringList value is joined (joining None
\* raises TypeError), any other value is set as read
CopyField(type, value) ==
    IF type = "StringList"
    THEN IF value.null THEN [status |-> "error", value |-> Null]
         ELSE [status |-> "ok", value |-> Val(JoinValues(value.v))]
    ELSE [status |-> "ok", value |-> value]

FIdle ==
    /\ f_defn = <<>>
    /\ f_feature = <<>>
    /\ f_pc = "idle"
    /\ f_out_defn = <<>>
    /\ f_out = <<>>

FInit ==
    /\ f_defn \in InputDefns
    /\ f_feature \in FeaturesOf(f_defn)
    /\ f_pc = "new"
    /\ f_out_defn = <<>>
    /\ f_out = <<>>

\* the output layer gets its fields
CreateFields ==
    /\ f_pc = "new"
    /\ f_out_defn' = OutputDefn(f_defn)
    /\ f_pc' = "fields"
    /\ UNCHANGED <<f_defn, f_feature, f_out>>

\* the body of "for feature in input_layer" up to CreateFeature
CopyFeature ==
    /\ f_pc = "fields"
    /\ LET copied == [i \in 1..Len(f_out_defn) |->
                         CopyField(f_defn[i].type, f_feature[i])]
       IN IF \E i \in 1..Len(copied) : copied[i].status = "error"
          THEN f_pc' = "error" /\ UNCHANGED f_out
          ELSE /\ f_out' = [i \in 1..Len(copied) |-> copied[i].value]
               /\ f_pc' = "copied"
    /\ UNCHANGED <<f_defn, f_feature, f_out_defn>>

(* Claims about create_file's field handling *)

ListFields == {i \in 1..Len(f_defn) : f_defn[i].type = "StringList"}
HasComma(str) == \E k \in 1..Len(str) : str[k] = ","
\* the written string, split on the comma, is the list that was read
SplitsBack(i) == Split(f_out[i].v, ",") = f_feature[i].v

FieldsWritten ==
    /\ Len(f_out) = Len(f_defn)
    /\ \A i \in 1..Len(f_defn) :
          /\ f_out_defn[i].name = f_defn[i].name
          /\ i \in ListFields =>
                /\ f_out_defn[i].type = "String"
                /\ ~f_out[i].null
                /\ f_out[i].v = Join(f_feature[i].v, ",")
          /\ i \notin ListFields =>
                /\ f_out_defn[i].type = f_defn[i].type
                /\ f_out[i] = f_feature[i]

\* C9 as stated: every string-list field is written as the comma-join of its
\* values, every other field keeps name, type and value, and splitting the
\* written string on the comma recovers the list for every list value.
C9_Original ==
    f_pc = "copied" =>
        /\ FieldsWritten
        /\ \A i \in ListFields : SplitsBack(i)

\* C9 amended: every non-null string-list field is written as the comma-join
\* of its values (a null one aborts the copy) and every other field keeps
\* name, type and value; splitting the written string on the comma recovers
\* the list exactly when the list is non-empty and no element holds a comma.
C9_JoinAndSplitBack ==
    /\ f_pc = "copied" =>
          /\ FieldsWritten
          /\ \A i \in ListFields :
                SplitsBack(i) <=>
                    /\ f_feature[i].v # <<>>
                    /\ \A k \in 1..Len(f_feature[i].v) : ~HasComma(f_feature[i].v[k])
    /\ f_pc = "error" => \E i \in ListFields : f_feature[i].null
    /\ f_pc = "copied" => \A i \in ListFields : ~f_feature[i].null

\* C9 witness: a list of two comma-free elements was written and splits back
C9_Witness ==
    /\ f_pc = "copied"
    /\ \E i \in ListFields :
          /\ Len(f_feature[i].v) = 2
          /\ f_out[i].v = <<"a", ",", "a">>
          /\ SplitsBack(i)

----------------------------------------------------------------------------
(* extract.create_file: the copy loop and its counter *)

MaxSmall == 2       \* short sources: at most this many features pass the filter
MaxOver == 1        \* long sources: at most this many more than the limit pass
MaxStride == 2      \* the sparsest spatial filter: one feature in so many passes

\* if counter == 1000: break
CounterLimit == 1000

\* how many features of a sample source pass the spatial filter: a few, or
\* about as many as the counter allows
PassingCounts == (0..MaxSmall) \cup ((CounterLimit - 2)..(CounterLimit + MaxOver))

\* where, among the passing features of a sample source, the one with a null
\* list value stands (0: nowhere)
NullPositions == {0, 1, CounterLimit - 1, CounterLimit}

\* input_layer.SetSpatialFilter(geom_filter): whether the iteration yields
\* the feature
PassesFilter(fid, stride) == (fid - 1) % stride = 0

\* feature.GetField(i) for the list field of the sample layer
SourceValue(fid, nullfid) == IF fid = nullfid THEN Null ELSE Val(<< <<"a">> >>)

\* one step of "for feature in input_layer": the first feature after pos that
\* passes the filter, 0 when the layer is exhausted
NextFeature(pos, total, stride) ==
    LET upto == IF pos + stride < total THEN pos + stride ELSE total
        later == {fid \in (pos + 1)..upto : PassesFilter(fid, stride)}
    IN IF later = {} THEN 0 ELSE CHOOSE fid \in later : \A g \in later : fid <= g

\* faulty variant: the loop is left one feature later
BreakAfterLimit(counter) == counter > CounterLimit

\* if counter == 1000: break
BreakNow(counter) == counter = CounterLimit

LIdle ==
    /\ l_total = 0
    /\ l_stride = 1
    /\ l_nullfid = 0
    /\ l_pc = "idle"
    /\ l_pos = 0
    /\ l_counter = 0
    /\ l_written = <<>>
    /\ l_in_ds = "none"
    /\ l_out_ds = "none"

LInit ==
    /\ l_stride \in 1..MaxStride
    /\ \E n \in PassingCounts : l_total = n * l_stride
    /\ \E k \in NullPositions :
          l_nullfid = IF k = 0 THEN 0 ELSE 1 + (k - 1) * l_stride
    /\ l_pc = "start"
    /\ l_pos = 0
    /\ l_counter = 0
    /\ l_written = <<>>
    /\ l_in_ds = "none"
    /\ l_out_ds = "none"

\* lines 200-229: open the input (a file that cannot be opened raises before
\* any output exists), create the output datasource, layer and fields,
\* counter = 1, set the spatial filter
OpenFiles ==
    /\ l_pc = "start"
    /\ \E ok \in BOOLEAN :
          IF ok
          THEN /\ l_in_ds' = "open"
               /\ l_out_ds' = "open"
               /\ l_counter' = 1
               /\ l_pc' = "loop"
          ELSE /\ l_pc' = "error"
               /\ UNCHANGED <<l_in_ds, l_out_ds, l_counter>>
    /\ UNCHANGED <<l_total, l_stride, l_nullfid, l_pos, l_written>>

\* one turn of the loop, lines 231-254: copy the fields (a null list value
\* raises), CreateFeature, counter += 1, break at the limit; after the break
\* the datasources are closed, lines 258-259
CopyNext ==
    /\ l_pc = "loop"
    /\ NextFeature(l_pos, l_total, l_stride) # 0
    /\ LET fid == NextFeature(l_pos, l_total, l_stride)
           copied == CopyField("StringList", SourceValue(fid, l_nullfid))
       IN /\ l_pos' = fid
          /\ IF copied.status = "error"
             THEN /\ l_pc' = "error"
                  /\ UNCHANGED <<l_written, l_counter, l_in_ds, l_out_ds>>
             ELSE /\ l_written' = Append(l_written, fid)
                  /\ l_counter' = l_counter + 1
                  /\ IF BreakNow(l_counter + 1)
                     THEN /\ l_in_ds' = "closed"
                          /\ l_out_ds' = "closed"
                          /\ l_pc' = "done"
                     ELSE UNCHANGED <<l_in_ds, l_out_ds, l_pc>>
    /\ UNCHANGED <<l_total, l_stride, l_nullfid>>

\* the layer has no further feature: the loop ends and the datasources are
\* closed, lines 258-259
Exhausted ==
    /\ l_pc = "loop"
    /\ NextFeature(l_pos, l_total, l_stride) = 0
    /\ l_in_ds' = "closed"
    /\ l_out_ds' = "closed"
    /\ l_pc' = "done"
    /\ UNCHANGED <<l_total, l_stride, l_nullfid, l_pos, l_counter, l_written>>

(* Claims about create_file's counter *)

\* N: the features of the source that pass the spatial filter
Passing == {fid \in 1..l_total : PassesFilter(fid, l_stride)}

\* w holds the first Len(w) passing features of the source, in source order
FirstInOrder(w) ==
    \A k \in 1..Len(w) :
        /\ w[k] \in 1..l_total
        /\ PassesFilter(w[k], l_stride)
        /\ \A fid \in (IF k = 1 THEN 1 ELSE w[k - 1] + 1)..(w[k] - 1) :
              ~PassesFilter(fid, l_stride)

C13_ShortSourceReached ==
    /\ l_pc = "done"
    /\ Cardinality(Passing) = 2
    /\ l_written = <<1, 3>>

----------------------------------------------------------------------------
(* The specifications, one per component *)

NextBoundaries == GetBoundaries /\ UNCHANGED <<xvars, gvars, cvars, mvars, fvars, lvars>>
InitBoundaries == BInit /\ XIdle /\ GIdle /\ CIdle /\ MIdle /\ FIdle /\ LIdle
SpecBoundaries == InitBoundaries /\ [][NextBoundaries]_vars

NextBBox == ApplyBBoxFilter /\ UNCHANGED <<bvars, gvars, cvars, mvars, fvars, lvars>>
InitBBox == BIdle /\ XInit /\ GIdle /\ CIdle /\ MIdle /\ FIdle /\ LIdle
SpecBBox == InitBBox /\ [][NextBBox]_vars

NextGeometry ==
    \/ CheckGeometryOnce /\ UNCHANGED <<bvars, xvars, cvars, mvars, fvars, lvars>>
    \/ CheckGeometryTwice /\ UNCHANGED <<bvars, xvars, cvars, mvars, fvars, lvars>>
InitGeometry == BIdle /\ XIdle /\ GInit /\ CIdle /\ MIdle /\ FIdle /\ LIdle
SpecGeometry == InitGeometry /\ [][NextGeometry]_vars

NextConvert ==
    \/ OpenOutput /\ UNCHANGED <<bvars, xvars, gvars, mvars, fvars, lvars>>
    \/ ReadNextBatch /\ UNCHANGED <<bvars, xvars, gvars, mvars, fvars, lvars>>
    \/ EndOfBatches /\ UNCHANGED <<bvars, xvars, gvars, mvars, fvars, lvars>>
    \/ ReadFails /\ UNCHANGED <<bvars, xvars, gvars, mvars, fvars, lvars>>
    \/ ConvertBatch /\ UNCHANGED <<bvars, xvars, gvars, mvars, fvars, lvars>>
    \/ WriteFeature /\ UNCHANGED <<bvars, xvars, gvars, mvars, fvars, lvars>>
    \/ BatchDone /\ UNCHANGED <<bvars, xvars, gvars, mvars, fvars, lvars>>
InitConvert == BIdle /\ XIdle /\ GIdle /\ CInit /\ MIdle /\ FIdle /\ LIdle
SpecConvert == InitConvert /\ [][NextConvert]_vars

NextMain ==
    \/ Setup /\ UNCHANGED <<bvars, xvars, gvars, cvars, fvars, lvars>>
    \/ StartBoundary /\ UNCHANGED <<bvars, xvars, gvars, cvars, fvars, lvars>>
    \/ GetDataFromBBox /\ UNCHANGED <<bvars, xvars, gvars, cvars, fvars, lvars>>
    \/ FilterByBoundary /\ UNCHANGED <<bvars, xvars, gvars, cvars, fvars, lvars>>
    \/ MoveOutput /\ UNCHANGED <<bvars, xvars, gvars, cvars, fvars, lvars>>
    \/ Finish /\ UNCHANGED <<bvars, xvars, gvars, cvars, fvars, lvars>>
    \/ HdxParse /\ UNCHANGED <<bvars, xvars, gvars, cvars, fvars, lvars>>
InitMain == BIdle /\ XIdle /\ GIdle /\ CIdle /\ MInit /\ FIdle /\ LIdle
SpecMain == InitMain /\ [][NextMain]_vars

NextFlatten ==
    \/ CreateFields /\ UNCHANGED <<bvars, xvars, gvars, cvars, mvars, lvars>>
    \/ CopyFeature /\ UNCHANGED <<bvars, xvars, gvars, cvars, mvars, lvars>>
InitFlatten == BIdle /\ XIdle /\ GIdle /\ CIdle /\ MIdle /\ FInit /\ LIdle
SpecFlatten == InitFlatten /\ [][NextFlatten]_vars

NextCreateFile ==
    \/ OpenFiles /\ UNCHANGED <<bvars, xvars, gvars, cvars, mvars, fvars>>
    \/ CopyNext /\ UNCHANGED <<bvars, xvars, gvars, cvars, mvars, fvars>>
    \/ Exhausted /\ UNCHANGED <<bvars, xvars, gvars, cvars, mvars, fvars>>
InitCreateFile == BIdle /\ XIdle /\ GIdle /\ CIdle /\ MIdle /\ FIdle /\ LInit
SpecCreateFile == InitCreateFile /\ [][NextCreateFile]_vars

====
